---- MODULE Spec2Model ----
(***************************************************************************)
(* A model of yt_transcribe: cli.main and the two functions of core it     *)
(* calls, download_audio_as_wav_bytes and transcribe_wav.                  *)
(*                                                                         *)
(* Each operating-system process runs one entry point to completion.  The  *)
(* output files live in one file system shared by the processes; the       *)
(* scratch directory and the temporary file of a process have names that   *)
(* are unique to it (tempfile), so they are kept per process.              *)
(*                                                                         *)
(* The external collaborators (yt-dlp, ffmpeg, whisper, the file system)   *)
(* either succeed or raise; which of the two is a choice of the            *)
(* environment.  The assert statements of main are executed (the           *)
(* interpreter runs without -O).                                           *)
(*                                                                         *)
(* Temperatures are in hundredths: 100 stands for 1.0 and -1 for -0.01.    *)
(* A path and a text are sequences of one-character strings.               *)
(***************************************************************************)
EXTENDS Integers, Sequences, FiniteSets, TLC

VARIABLES
    pc,               \* where each process is
    entry,            \* the entry point each process runs
    args,             \* main: the namespace parse_args returned
    call,             \* transcribe_wav: its parameters
    fs,               \* the output files: path -> content, for the paths that exist
    cuda,             \* torch.cuda.is_available()
    scratch,          \* download_audio_as_wav_bytes: its TemporaryDirectory
    wav_bytes,        \* download_audio_as_wav_bytes: the local wav_bytes
    audio_bytes,      \* main: the local audio_bytes
    fp16,             \* transcribe_wav: the local fp16 after lines 45-46
    tmp_exists,       \* the NamedTemporaryFile of the process is on disk
    tmp_path,         \* transcribe_wav: the local tmp_path is set
    result,           \* transcribe_wav: result["text"]
    text,             \* the value transcribe_wav returned
    exc,              \* the exception in flight, or the one that ended the process
    calls,            \* history: how often each external step was invoked
    infer_fp16,       \* history: the fp16 argument of model.transcribe
    existed_at_check, \* history: os.path.exists(args.output) at line 57
    fs0               \* history: the file system when the processes started

vars == <<pc, entry, args, call, fs, cuda, scratch, wav_bytes, audio_bytes, fp16,
          tmp_exists, tmp_path, result, text, exc, calls, infer_fp16,
          existed_at_check, fs0>>

\* ------------------------------------------------------------------ bounds

\* The longest text the model returns, before strip().
MaxRawLen == 2
\* How far the temperatures tried reach beyond and within each end of [0.0, 1.0].
TempMargin == 1

\* ------------------------------------------------------------------ values

Procs == {"p1", "p2"}

None == "None"
NoExc == "none"

STDIN_MARKER == "-"
VideoUrl == "https://youtu.be/v"
Urls == {"", STDIN_MARKER, VideoUrl}

\* The bytes ffmpeg produced.
TranscodedBytes == "output.wav-bytes"

A_TXT == <<"a", ".", "t", "x", "t">>
B_TXT == <<"b", ".", "t", "x", "t">>
A_WAV == <<"a", ".", "w", "a", "v">>
DOT_TXT == <<".", "t", "x", "t">>
OutputPaths == {A_TXT, B_TXT, A_WAV, DOT_TXT}
TXT == <<".", "t", "x", "t">>

OldContent == <<"o", "l", "d", "\n">>

ModelNames == {"tiny", "base", "large-v3", "large", "huge"}
Languages == {None, "en"}
\* 1.0, in hundredths.
One == 100
Temperatures == ((0 - TempMargin) .. TempMargin) \cup ((One - TempMargin) .. (One + TempMargin))

Fp16Values == {None, "True", "False"}
WavKinds == {"bytes", "stream", "path"}

Whitespace == {" ", "\n"}
TextChars == {" ", "h"}
RECURSIVE SeqsUpTo(_, _)
SeqsUpTo(S, n) ==
    IF n = 0 THEN {<<>>}
    ELSE LET shorter == SeqsUpTo(S, n - 1)
         IN  shorter \cup {Append(s, c) : s \in {t \in shorter : Len(t) = n - 1}, c \in S}
RawTexts == SeqsUpTo(TextChars, MaxRawLen)

ScratchFiles == {"input", "output.wav"}
NoDir == [exists |-> FALSE, files |-> {}]

NoCalls == [download |-> 0, transcode |-> 0, load |-> 0, infer |-> 0, write |-> 0]

ArgvSet == [url : Urls, output : OutputPaths, model : ModelNames, language : Languages,
            temperature : Temperatures, no_fp16 : BOOLEAN]
NoArgs == [url |-> "", output |-> <<>>, model |-> "", language |-> None,
           temperature |-> 0, no_fp16 |-> FALSE]

LibCalls == [wav : WavKinds, model_name : {"base"}, language : {None},
             temperature : {0}, fp16 : Fp16Values]
NoCall == [wav |-> "none", model_name |-> "", language |-> None,
           temperature |-> 0, fp16 |-> None]

\* ------------------------------------------------------- pure functions

\* The largest index of c in p, 0 when c does not occur (str.rfind, 1-based).
rfind(p, c) ==
    LET at == {i \in 1 .. Len(p) : p[i] = c}
    IN  IF at = {} THEN 0 ELSE CHOOSE i \in at : \A j \in at : j <= i

\* os.path.splitext(p)[1]: the text from the last dot of the last path
\* component on, empty when that component has no dot or only leading dots.
splitext_ext(p) ==
    LET sepIndex == rfind(p, "/")
        dotIndex == rfind(p, ".")
    IN  IF /\ dotIndex > sepIndex
           /\ \E i \in (sepIndex + 1) .. (dotIndex - 1) : p[i] # "."
        THEN SubSeq(p, dotIndex, Len(p))
        ELSE <<>>

\* str.strip(): the text without its leading and trailing whitespace.
RECURSIVE lstrip(_)
lstrip(s) == IF s # <<>> /\ Head(s) \in Whitespace THEN lstrip(Tail(s)) ELSE s
RECURSIVE rstrip(_)
rstrip(s) ==
    IF s # <<>> /\ s[Len(s)] \in Whitespace THEN rstrip(SubSeq(s, 1, Len(s) - 1)) ELSE s
strip(s) == rstrip(lstrip(s))

\* The five assertions of main, in their order.
UrlOk(a) == a.url # ""

ValidModels == {"tiny", "base", "small", "medium", "large-v3"}

ModelOkAny(a) == TRUE
ModelOk(a) == a.model \in ValidModels

TemperatureOkStrict(a) == 0 < a.temperature /\ a.temperature < One
TemperatureOk(a) == 0 <= a.temperature /\ a.temperature <= One

ExtensionOk(a) == splitext_ext(a.output) = TXT

OutputFreeUnchecked(a, files) == TRUE
OutputFree(a, files) == a.output \notin DOMAIN files

AssertionsPass(a, files) ==
    /\ UrlOk(a)
    /\ ModelOk(a)
    /\ TemperatureOk(a)
    /\ ExtensionOk(a)
    /\ OutputFree(a, files)

\* The arguments main gives transcribe_wav.
MainTranscribeArgs(a) ==
    [wav |-> "bytes", model_name |-> a.model, language |-> a.language,
     temperature |-> a.temperature,
     fp16 |-> IF a.no_fp16 THEN "False" ELSE "True"]

\* What main writes to the output file.
FileContentNoNewline(url, t) == <<"Source: ", url, "\n", "\n">> \o t
FileContent(url, t) == (<<"Source: ", url, "\n", "\n">> \o t) \o <<"\n">>

\* open(path, "w") and the write: the file is created, or truncated and replaced.
WriteFile(files, path, content) ==
    [q \in DOMAIN files \cup {path} |-> IF q = path THEN content ELSE files[q]]

\* ------------------------------------------------------------ initial states

\* The files that exist before any process runs, each with some older content.
InitialFiles(present) == [q \in present |-> OldContent]

InitLocals ==
    /\ scratch = [p \in Procs |-> NoDir]
    /\ wav_bytes = [p \in Procs |-> None]
    /\ audio_bytes = [p \in Procs |-> None]
    /\ fp16 = [p \in Procs |-> None]
    /\ tmp_exists = [p \in Procs |-> FALSE]
    /\ tmp_path = [p \in Procs |-> FALSE]
    /\ result = [p \in Procs |-> <<>>]
    /\ text = [p \in Procs |-> <<>>]
    /\ exc = [p \in Procs |-> NoExc]
    /\ calls = [p \in Procs |-> NoCalls]
    /\ infer_fp16 = [p \in Procs |-> None]
    /\ existed_at_check = [p \in Procs |-> FALSE]

\* How a process starts: it runs the command line with the arguments a, it
\* calls transcribe_wav itself with the parameters c, or it is not started.
Starts(argvs, libcalls) ==
    {[entry |-> "main", args |-> a, call |-> NoCall] : a \in argvs}
        \cup {[entry |-> "transcribe_wav", args |-> NoArgs, call |-> c] : c \in libcalls}
Idle == [entry |-> "none", args |-> NoArgs, call |-> NoCall]

StartPc(e) == IF e = "none" THEN "not_started" ELSE e

Launch(st) ==
    /\ entry = [p \in Procs |-> st[p].entry]
    /\ pc = [p \in Procs |-> StartPc(st[p].entry)]
    /\ args = [p \in Procs |-> st[p].args]
    /\ call = [p \in Procs |-> st[p].call]

\* One process, with any command line or any call of transcribe_wav.
Init ==
    /\ cuda \in BOOLEAN
    /\ \E present \in SUBSET OutputPaths : fs = InitialFiles(present)
    /\ fs0 = fs
    /\ \E s1 \in Starts(ArgvSet, LibCalls) : Launch("p1" :> s1 @@ "p2" :> Idle)
    /\ InitLocals

\* ------------------------------------------------------------------ cli.main

Raise(p, e) == exc' = [exc EXCEPT ![p] = e]

\* parse_args and the five assertions.
Validate(p) ==
    /\ pc[p] = "main"
    /\ existed_at_check' = [existed_at_check EXCEPT ![p] = args[p].output \in DOMAIN fs]
    /\ IF AssertionsPass(args[p], fs)
       THEN /\ pc' = [pc EXCEPT ![p] = "download_audio_as_wav_bytes"]
            /\ UNCHANGED exc
       ELSE /\ pc' = [pc EXCEPT ![p] = "failed"]
            /\ Raise(p, "AssertionError")
    /\ UNCHANGED <<entry, args, call, fs, cuda, scratch, wav_bytes, audio_bytes, fp16,
                   tmp_exists, tmp_path, result, text, calls, infer_fp16, fs0>>

\* The text is prefixed with its source and written, with a newline after it.
WriteOutput(p) ==
    /\ pc[p] = "write_output"
    /\ fs' = WriteFile(fs, args[p].output, FileContent(args[p].url, text[p]))
    /\ calls' = [calls EXCEPT ![p].write = @ + 1]
    /\ pc' = [pc EXCEPT ![p] = "done"]
    /\ UNCHANGED <<entry, args, call, cuda, scratch, wav_bytes, audio_bytes, fp16,
                   tmp_exists, tmp_path, result, text, exc, infer_fp16,
                   existed_at_check, fs0>>

\* ------------------------------------------- core.download_audio_as_wav_bytes

\* tempfile.TemporaryDirectory() is entered.
DlEnter(p) ==
    /\ pc[p] = "download_audio_as_wav_bytes"
    /\ scratch' = [scratch EXCEPT ![p] = [exists |-> TRUE, files |-> {}]]
    /\ pc' = [pc EXCEPT ![p] = "extract_info"]
    /\ UNCHANGED <<entry, args, call, fs, cuda, wav_bytes, audio_bytes, fp16, tmp_exists,
                   tmp_path, result, text, exc, calls, infer_fp16, existed_at_check, fs0>>

\* One external step that writes the file f into the scratch directory: it
\* succeeds and leaves f, or raises e and leaves f, in part, or nothing.
ScratchStep(p, at, count, f, e, next) ==
    /\ pc[p] = at
    /\ calls' = [calls EXCEPT ![p] = count]
    /\ \E ok \in BOOLEAN, left \in BOOLEAN :
          /\ ok => left
          /\ scratch' = [scratch EXCEPT ![p].files = IF left THEN @ \cup {f} ELSE @]
          /\ IF ok
             THEN pc' = [pc EXCEPT ![p] = next] /\ UNCHANGED exc
             ELSE pc' = [pc EXCEPT ![p] = "tmpdir_exit"] /\ Raise(p, e)
    /\ UNCHANGED <<entry, args, call, fs, cuda, wav_bytes, audio_bytes, fp16, tmp_exists,
                   tmp_path, result, text, infer_fp16, existed_at_check, fs0>>

\* ydl.extract_info(url, download=True)
DlExtract(p) ==
    ScratchStep(p, "extract_info", [calls[p] EXCEPT !.download = @ + 1],
                "input", "DownloadError", "ffmpeg")

\* subprocess.run(["ffmpeg", ...], check=True)
DlTranscode(p) ==
    ScratchStep(p, "ffmpeg", [calls[p] EXCEPT !.transcode = @ + 1],
                "output.wav", "CalledProcessError", "read_wav")

\* open(output_path, "rb") and f.read()
DlRead(p) ==
    /\ pc[p] = "read_wav"
    /\ \E ok \in BOOLEAN :
          IF ok
          THEN wav_bytes' = [wav_bytes EXCEPT ![p] = TranscodedBytes] /\ UNCHANGED exc
          ELSE Raise(p, "OSError") /\ UNCHANGED wav_bytes
    /\ pc' = [pc EXCEPT ![p] = "tmpdir_exit"]
    /\ UNCHANGED <<entry, args, call, fs, cuda, scratch, audio_bytes, fp16, tmp_exists,
                   tmp_path, result, text, calls, infer_fp16, existed_at_check, fs0>>

\* What TemporaryDirectory.__exit__ leaves of the scratch directory.
ScratchOnExitKeptOnError(p) == IF exc[p] = NoExc THEN NoDir ELSE scratch[p]
ScratchOnExit(p) == NoDir

\* The function returns its bytes unless an exception is in flight.
DlReturnsAlways(p) == TRUE
DlReturns(p) == exc[p] = NoExc

\* The with block is left: the directory is removed, then the function
\* returns to main, which calls transcribe_wav, or the exception ends main.
DlExit(p) ==
    /\ pc[p] = "tmpdir_exit"
    /\ scratch' = [scratch EXCEPT ![p] = ScratchOnExit(p)]
    /\ IF DlReturns(p)
       THEN /\ audio_bytes' = [audio_bytes EXCEPT ![p] = wav_bytes[p]]
            /\ call' = [call EXCEPT ![p] = MainTranscribeArgs(args[p])]
            /\ pc' = [pc EXCEPT ![p] = "transcribe_wav"]
       ELSE /\ pc' = [pc EXCEPT ![p] = "failed"]
            /\ UNCHANGED <<audio_bytes, call>>
    /\ UNCHANGED <<entry, args, fs, cuda, wav_bytes, fp16, tmp_exists, tmp_path, result,
                   text, exc, calls, infer_fp16, existed_at_check, fs0>>

\* ------------------------------------------------------- core.transcribe_wav

\* fp16 as lines 44-46 leave it.
ResolveFp16(given, accelerator) ==
    IF given = None THEN (IF accelerator THEN "True" ELSE "False") ELSE given

\* The device is chosen, fp16 is resolved and whisper.load_model is called.
TwLoad(p) ==
    /\ pc[p] = "transcribe_wav"
    /\ fp16' = [fp16 EXCEPT ![p] = ResolveFp16(call[p].fp16, cuda)]
    /\ calls' = [calls EXCEPT ![p].load = @ + 1]
    /\ \E ok \in BOOLEAN :
          IF ok
          THEN pc' = [pc EXCEPT ![p] = "normalize"] /\ UNCHANGED exc
          ELSE pc' = [pc EXCEPT ![p] = "failed"] /\ Raise(p, "ModelLoadError")
    /\ UNCHANGED <<entry, args, call, fs, cuda, scratch, wav_bytes, audio_bytes,
                   tmp_exists, tmp_path, result, text, infer_fp16, existed_at_check, fs0>>

\* How the normalisation of the input can go, for each kind of input.
NormalizeOutcomes(kind) ==
    CASE kind = "bytes" -> {"written", "create_fails", "write_fails"}
      [] kind = "stream" -> {"read_fails", "written", "create_fails", "write_fails"}
      [] OTHER -> {"path"}

\* Lines 55-72, which are outside the try block: a path is used as it is;
\* bytes, or what a stream holds, are written to a NamedTemporaryFile that is
\* created with delete=False, and tmp_path is set once the file is closed.
TwNormalize(p) ==
    /\ pc[p] = "normalize"
    /\ \E outcome \in NormalizeOutcomes(call[p].wav) :
          /\ tmp_exists' = [tmp_exists EXCEPT ![p] = outcome \in {"written", "write_fails"}]
          /\ tmp_path' = [tmp_path EXCEPT ![p] = outcome = "written"]
          /\ IF outcome \in {"written", "path"}
             THEN pc' = [pc EXCEPT ![p] = "model_transcribe"] /\ UNCHANGED exc
             ELSE pc' = [pc EXCEPT ![p] = "failed"] /\ Raise(p, "OSError")
    /\ UNCHANGED <<entry, args, call, fs, cuda, scratch, wav_bytes, audio_bytes, fp16,
                   result, text, calls, infer_fp16, existed_at_check, fs0>>

\* model.transcribe(wav_path, ..., fp16=fp16, ...), inside the try block.
TwInfer(p) ==
    /\ pc[p] = "model_transcribe"
    /\ calls' = [calls EXCEPT ![p].infer = @ + 1]
    /\ infer_fp16' = [infer_fp16 EXCEPT ![p] = fp16[p]]
    /\ \E ok \in BOOLEAN :
          IF ok
          THEN (\E raw \in RawTexts : result' = [result EXCEPT ![p] = raw]) /\ UNCHANGED exc
          ELSE Raise(p, "InferenceError") /\ UNCHANGED result
    /\ pc' = [pc EXCEPT ![p] = "finally"]
    /\ UNCHANGED <<entry, args, call, fs, cuda, scratch, wav_bytes, audio_bytes, fp16,
                   tmp_exists, tmp_path, text, existed_at_check, fs0>>

\* The finally block removes the temporary file; then the stripped text is
\* returned, or the exception goes on to the caller.
TwFinally(p) ==
    /\ pc[p] = "finally"
    /\ tmp_exists' = [tmp_exists EXCEPT ![p] = IF tmp_path[p] /\ @ THEN FALSE ELSE @]
    /\ IF exc[p] = NoExc
       THEN /\ text' = [text EXCEPT ![p] = strip(result[p])]
            /\ pc' = [pc EXCEPT ![p] = IF entry[p] = "main" THEN "write_output" ELSE "returned"]
       ELSE /\ pc' = [pc EXCEPT ![p] = "failed"]
            /\ UNCHANGED text
    /\ UNCHANGED <<entry, args, call, fs, cuda, scratch, wav_bytes, audio_bytes, fp16,
                   tmp_path, result, exc, calls, infer_fp16, existed_at_check, fs0>>

\* ------------------------------------------------------------ specifications

Next ==
    \E p \in Procs :
        \/ Validate(p)
        \/ DlEnter(p)
        \/ DlExtract(p)
        \/ DlTranscode(p)
        \/ DlRead(p)
        \/ DlExit(p)
        \/ TwLoad(p)
        \/ TwNormalize(p)
        \/ TwInfer(p)
        \/ TwFinally(p)
        \/ WriteOutput(p)

Spec == Init /\ [][Next]_vars

\* Two processes started together on one small set of command lines.
ParOutputs == {A_TXT, A_WAV}
ParArgv == [url : {STDIN_MARKER, VideoUrl}, output : ParOutputs, model : {"tiny"},
            language : {None}, temperature : {0}, no_fp16 : {FALSE}]
ParCalls == [wav : WavKinds, model_name : {"base"}, language : {None},
             temperature : {0}, fp16 : {None}]

InitPar ==
    /\ cuda \in BOOLEAN
    /\ \E present \in SUBSET {A_TXT} : fs = InitialFiles(present)
    /\ fs0 = fs
    /\ \E s1 \in Starts(ParArgv, ParCalls), s2 \in Starts(ParArgv, ParCalls) :
          Launch("p1" :> s1 @@ "p2" :> s2)
    /\ InitLocals

SpecPar == InitPar /\ [][Next]_vars

TypeOK ==
    /\ pc \in [Procs -> {"not_started", "main", "download_audio_as_wav_bytes",
                         "extract_info", "ffmpeg", "read_wav", "tmpdir_exit",
                         "transcribe_wav", "normalize", "model_transcribe", "finally",
                         "write_output", "done", "returned", "failed"}]
    /\ \A p \in Procs : scratch[p].files \subseteq ScratchFiles
    /\ \A p \in Procs : fp16[p] \in Fp16Values /\ infer_fp16[p] \in Fp16Values
    /\ \A p \in Procs : text[p] \in RawTexts /\ result[p] \in RawTexts
    /\ DOMAIN fs \subseteq OutputPaths

\* -------------------------------------------------------------- properties

MainProcs == {p \in Procs : entry[p] = "main"}

\* The four external steps, and every effect a run can have outside itself.
ExternalCalls(p) ==
    calls[p].download + calls[p].transcode + calls[p].load + calls[p].infer
SideEffects(p) ==
    \/ ExternalCalls(p) > 0
    \/ calls[p].write > 0
    \/ scratch[p].exists
    \/ tmp_exists[p]

\* The configuration of p, as it was when main validated it.
TemperatureInRange(p) == args[p].temperature >= 0 /\ args[p].temperature <= 100
OtherOptionsValid(p) ==
    /\ args[p].url # ""
    /\ args[p].model \in {"tiny", "base", "small", "medium", "large-v3"}
    /\ splitext_ext(args[p].output) = <<".", "t", "x", "t">>
    /\ ~existed_at_check[p]
ConfigValid(p) == OtherOptionsValid(p) /\ TemperatureInRange(p)

\* C1: in a run of main nothing external happens (no download, transcode,
\* model load or inference, no scratch directory, no temporary file, no
\* output file) before the validation, nor ever unless all five validations
\* passed; a run whose configuration is invalid has failed right after the
\* validation, with none of those effects and the files as they were.
C1_ValidationBeforeWork ==
    \A p \in MainProcs :
        /\ pc[p] = "main" => ~SideEffects(p)
        /\ SideEffects(p) => ConfigValid(p)
        /\ (pc[p] # "main" /\ ~ConfigValid(p)) =>
              /\ pc[p] = "failed"
              /\ exc[p] = "AssertionError"
              /\ ~SideEffects(p)
              /\ fs = fs0

C1_Witness ==
    \E p \in MainProcs :
        /\ pc[p] = "failed"
        /\ args[p].model = "huge"
        /\ args[p].url = VideoUrl /\ TemperatureInRange(p)
        /\ splitext_ext(args[p].output) = TXT /\ ~existed_at_check[p]

\* C2: a run of main that found its output path existing has failed without
\* calling the downloader, and the file has the content it had.
C2_ExistingOutputFails ==
    \A p \in MainProcs :
        (pc[p] # "main" /\ existed_at_check[p]) =>
            /\ pc[p] = "failed"
            /\ calls[p].download = 0
            /\ args[p].output \in DOMAIN fs
            /\ fs[args[p].output] = fs0[args[p].output]

C2_Witness ==
    \E p \in MainProcs :
        /\ pc[p] = "failed" /\ existed_at_check[p]
        /\ args[p].url = VideoUrl /\ args[p].model = "base" /\ TemperatureInRange(p)
        /\ args[p].output = A_TXT /\ fs[A_TXT] = OldContent

\* C3: a run of main that succeeded has created exactly its output file, whose
\* content is "Source: <url>", a newline, an empty line, the text
\* transcribe_wav returned and one newline; it wrote once, after the
\* transcription, and a run that has not succeeded has written nothing.
C3_OutputFile ==
    \A p \in MainProcs :
        /\ pc[p] = "done" =>
              /\ args[p].output \in DOMAIN fs
              /\ fs[args[p].output] =
                    <<"Source: ", args[p].url, "\n", "\n">> \o text[p] \o <<"\n">>
              /\ DOMAIN fs = DOMAIN fs0 \cup {args[p].output}
              /\ \A q \in DOMAIN fs0 : fs[q] = fs0[q]
              /\ calls[p].write = 1
        /\ pc[p] # "done" => (calls[p].write = 0 /\ fs = fs0)
        /\ calls[p].write > 0 => (calls[p].infer = 1 /\ exc[p] = NoExc)

C3_Witness ==
    \E p \in MainProcs :
        /\ pc[p] = "done"
        /\ text[p] # <<>> /\ result[p] # text[p]
        /\ fs[args[p].output] = <<"Source: ", VideoUrl, "\n", "\n", "h", "\n">>

\* C4: once transcribe_wav has returned or raised, for bytes or a stream, the
\* temporary file it made is not on disk.
C4_TempFileRemoved ==
    \A p \in Procs :
        (call[p].wav \in {"bytes", "stream"}
            /\ pc[p] \in {"write_output", "done", "returned", "failed"}) => ~tmp_exists[p]

\* The bytes on standard input.
StdinBytes == "stdin-wav"

\* C5: a run of main whose positional argument is "-" never calls the
\* downloader or the transcoder, and what it gives transcribe_wav are the
\* bytes of standard input.
C5_StdinMarker ==
    \A p \in MainProcs :
        args[p].url = STDIN_MARKER =>
            /\ calls[p].download = 0
            /\ calls[p].transcode = 0
            /\ call[p] # NoCall => audio_bytes[p] = StdinBytes

\* C6: the fp16 flag a run of main gives model inference is true only when
\* --no-fp16 is absent and CUDA is available, and false otherwise.
C6_PrecisionFlag ==
    \A p \in MainProcs :
        calls[p].infer > 0 =>
            infer_fp16[p] = (IF ~args[p].no_fp16 /\ cuda THEN "True" ELSE "False")

\* C7: where the other four validations pass, main's validation rejects the
\* temperature exactly when it is outside [0.0, 1.0] (0.0 and 1.0 are
\* accepted, -0.01 and 1.01 rejected), and a run with a rejected temperature
\* has failed before the acquisition.
C7_TemperatureRange ==
    \A p \in MainProcs :
        pc[p] # "main" =>
            /\ OtherOptionsValid(p) =>
                  (exc[p] = "AssertionError" <=> ~TemperatureInRange(p))
            /\ ~TemperatureInRange(p) =>
                  /\ pc[p] = "failed"
                  /\ exc[p] = "AssertionError"
                  /\ calls[p].download = 0
                  /\ ~scratch[p].exists

C7_Witness ==
    \E p \in MainProcs :
        /\ args[p].temperature = 0 - 1
        /\ OtherOptionsValid(p)
        /\ pc[p] = "failed" /\ exc[p] = "AssertionError"

\* C8: outside download_audio_as_wav_bytes, that is before it is entered and
\* after it returned or raised, whichever step failed, its scratch
\* directory and the files in it do not exist.
C8_ScratchRemoved ==
    \A p \in Procs :
        pc[p] \notin {"extract_info", "ffmpeg", "read_wav", "tmpdir_exit"} =>
            (~scratch[p].exists /\ scratch[p].files = {})

C8_Witness ==
    \E p \in MainProcs :
        /\ pc[p] = "failed" /\ exc[p] = "CalledProcessError"
        /\ calls[p].download = 1 /\ calls[p].transcode = 1
        /\ scratch[p] = NoDir

\* C9: each external step is attempted at most once; after a failed download
\* or transcode no bytes are returned, transcribe_wav is not called, no
\* output file is written and the run fails.
C9_SingleShot ==
    \A p \in Procs :
        /\ calls[p].download <= 1 /\ calls[p].transcode <= 1
        /\ calls[p].load <= 1 /\ calls[p].infer <= 1
        /\ exc[p] \in {"DownloadError", "CalledProcessError"} =>
              /\ pc[p] \in {"tmpdir_exit", "failed"}
              /\ audio_bytes[p] = None
              /\ call[p] = NoCall
              /\ calls[p].load = 0 /\ calls[p].infer = 0 /\ calls[p].write = 0
              /\ fs = fs0

C9_Witness ==
    \E p \in MainProcs :
        /\ pc[p] = "failed" /\ exc[p] = "DownloadError"
        /\ calls[p].download = 1 /\ calls[p].transcode = 0

\* C10: with two runs of main started together on one output path that did
\* not exist, no step replaces the content of a file that exists.
SameOutputRace ==
    /\ MainProcs = Procs
    /\ \A p \in Procs : args[p].output \notin DOMAIN fs0
    /\ \A p, q \in Procs : args[p].output = args[q].output
C10_NoOverwrite ==
    [][SameOutputRace => \A q \in DOMAIN fs : (q \in DOMAIN fs' /\ fs'[q] = fs[q])]_vars

====
